---- MODULE Spec2Model ----
(***************************************************************************)
(* A model of flaker (src/src/lib.rs): a generator of 128-bit, time        *)
(* ordered identifiers.  A Flaker holds a 6 byte identifier, the time (ms) *)
(* of the last generated id and a 16 bit counter.  get_id samples the      *)
(* clock, updates the state and packs counter, identifier and time into a  *)
(* 16 byte little-endian buffer that is read as an unsigned integer.       *)
(*                                                                         *)
(* Integers wider than 31 bits are held as sequences of base-256 digits,   *)
(* least significant first, the way BigUint holds them.                    *)
(***************************************************************************)
EXTENDS Integers, Sequences, FiniteSets, TLC

(* ------------------------------ bounds -------------------------------- *)

\* The modelled clock reads FirstMs, FirstMs+1, ..., FirstMs+MaxTick.
\* FirstMs sits just below 256 so that the readings cross a byte boundary.
FirstMs == 255
MaxTick == 1
\* SpecNew constructs with every identifier whose bytes are in 0..MaxByte
MaxByte == 1
\* SpecNew stops calling get_id once the counter has reached MaxBurst
MaxBurst == 2
\* SpecVec hands new_from_identifier vectors of IdLen - 1 up to IdLen +
\* MaxExtra bytes
MaxExtra == 1
\* SpecPair lets each of its two generators make MaxCalls get_id calls
MaxCalls == 2

(* ------------------------- program constants -------------------------- *)

\* counter: u16
U16Mod == 65536
\* identifier: [u8; 6]
IdLen == 6
\* let mut bytes = [0 as u8; 16]
IdBytes == 16
\* now_ts.subsec_nanos() / 1000_000
NanosPerMs == 1000000
\* now_ts.as_secs() * 1000
MsPerSec == 1000

Endianness == {"LittleEndian", "BigEndian"}

\* The identifier of the repository's tests
TestIdentifier == <<0, 1, 2, 3, 4, 5>>

(* --------------------------- byte helpers ----------------------------- *)

\* [T]::reverse
Reverse(s) == [i \in 1..Len(s) |-> s[Len(s) + 1 - i]]

\* x as u8
AsU8(x) == x % 256

\* WriteBytesExt::write_u64::<LittleEndian>: the 8 bytes of x, low byte first
RECURSIVE WriteLE(_, _)
WriteLE(x, n) == IF n = 0 THEN <<>> ELSE <<AsU8(x)>> \o WriteLE(x \div 256, n - 1)

write_u64_le(x) == WriteLE(x, 8)

\* BigUint::from_bytes_le: the digits of the number, low digit first, with
\* the leading (most significant) zero digits dropped
RECURSIVE from_bytes_le(_)
from_bytes_le(bytes) ==
    IF bytes = <<>> THEN <<>>
    ELSE IF bytes[Len(bytes)] = 0 THEN from_bytes_le(SubSeq(bytes, 1, Len(bytes) - 1))
    ELSE bytes

\* BigUint's Ord: more digits is greater; with as many digits, the most
\* significant digit that differs decides
RECURSIVE CmpDigits(_, _, _)
CmpDigits(a, b, i) ==
    IF i = 0 THEN 0
    ELSE IF a[i] < b[i] THEN -1
    ELSE IF a[i] > b[i] THEN 1
    ELSE CmpDigits(a, b, i - 1)

BigCmp(a, b) ==
    IF Len(a) < Len(b) THEN -1
    ELSE IF Len(a) > Len(b) THEN 1
    ELSE CmpDigits(a, b, Len(a))

BigLess(a, b) == BigCmp(a, b) = -1

\* BigUint::to_bytes_le, padded to 16 bytes: byte k (0..15) of an id
IdByte(id, k) == IF k + 1 <= Len(id) THEN id[k + 1] ELSE 0

(* ------------------------------ Flaker -------------------------------- *)

\* Flaker::current_time_in_ms, from the clock's duration since the epoch
current_time_in_ms(secs, nanos) == secs * MsPerSec + (nanos \div NanosPerMs)

\* The clock readings of the model
Clock == { current_time_in_ms(0, (FirstMs + k) * NanosPerMs + j) :
              k \in 0..MaxTick, j \in {0, NanosPerMs - 1} }

\* new without the reversal of a big-endian identifier
new_NeverReverses(given, endian, now) ==
    [ identifier |-> given,
      last_generated_time_ms |-> now,
      counter |-> 0 ]

\* Flaker::new
new(given, endian, now) ==
    [ identifier |-> IF endian = "BigEndian" THEN Reverse(given) ELSE given,
      last_generated_time_ms |-> now,
      counter |-> 0 ]

\* [T]::clone_from_slice: panics unless the two slices are as long
clone_from_slice(dst, src) ==
    IF Len(dst) # Len(src)
    THEN [panic |-> TRUE, value |-> dst]
    ELSE [panic |-> FALSE, value |-> src]

\* new_from_identifier that copies the first 6 bytes of a longer vector
new_from_identifier_TakesPrefix(vec, now) ==
    IF Len(vec) < IdLen
    THEN [panic |-> TRUE, self |-> new(<<>>, "LittleEndian", now)]
    ELSE [panic |-> FALSE,
          self |-> new(SubSeq(vec, 1, IdLen), "LittleEndian", now)]

\* Flaker::new_from_identifier
new_from_identifier(vec, now) ==
    LET a_identifier == clone_from_slice([i \in 1..IdLen |-> 0], vec)
    IN  [panic |-> a_identifier.panic,
         self  |-> new(a_identifier.value, "LittleEndian", now)]

\* construct_id with the two counter bytes in the other order
construct_id_CounterHighFirst(self) ==
    LET wtr == write_u64_le(self.last_generated_time_ms)
        bytes == [ i \in 1..IdBytes |->
                     IF i = 1 THEN AsU8(self.counter \div 256)
                     ELSE IF i = 2 THEN AsU8(self.counter)
                     ELSE IF i <= 2 + IdLen THEN self.identifier[i - 2]
                     ELSE wtr[i - 8] ]
    IN  from_bytes_le(bytes)

\* construct_id with the fields in the other order: time in the lowest
\* bytes, then the identifier, the counter on top
construct_id_TimeLowest(self) ==
    LET wtr == write_u64_le(self.last_generated_time_ms)
        bytes == [ i \in 1..IdBytes |->
                     IF i <= 8 THEN wtr[i]
                     ELSE IF i <= 8 + IdLen THEN self.identifier[i - 8]
                     ELSE IF i = 15 THEN AsU8(self.counter)
                     ELSE AsU8(self.counter \div 256) ]
    IN  from_bytes_le(bytes)

\* construct_id with the identifier below the counter
construct_id_IdentifierLowest(self) ==
    LET wtr == write_u64_le(self.last_generated_time_ms)
        bytes == [ i \in 1..IdBytes |->
                     IF i <= IdLen THEN self.identifier[i]
                     ELSE IF i = 7 THEN AsU8(self.counter)
                     ELSE IF i = 8 THEN AsU8(self.counter \div 256)
                     ELSE wtr[i - 8] ]
    IN  from_bytes_le(bytes)

\* construct_id whose loop stops one identifier byte early
construct_id_DropsLastIdentifierByte(self) ==
    LET wtr == write_u64_le(self.last_generated_time_ms)
        bytes == [ i \in 1..IdBytes |->
                     IF i = 1 THEN AsU8(self.counter)
                     ELSE IF i = 2 THEN AsU8(self.counter \div 256)
                     ELSE IF i < 2 + IdLen THEN self.identifier[i - 2]
                     ELSE IF i = 2 + IdLen THEN 0
                     ELSE wtr[i - 8] ]
    IN  from_bytes_le(bytes)

\* Flaker::construct_id
construct_id(self) ==
    LET wtr == write_u64_le(self.last_generated_time_ms)
        bytes == [ i \in 1..IdBytes |->
                     IF i = 1 THEN AsU8(self.counter)
                     ELSE IF i = 2 THEN AsU8(self.counter \div 256)
                     ELSE IF i <= 2 + IdLen THEN self.identifier[i - 2]
                     ELSE wtr[i - 8] ]
    IN  from_bytes_le(bytes)

\* self.counter += 1 on a u16: a build with overflow checks (cargo's dev and
\* test profiles) panics at 65535, a build without them wraps to 0
AddOne(c, checked) ==
    IF c + 1 >= U16Mod
    THEN IF checked THEN [panic |-> TRUE, value |-> c]
         ELSE [panic |-> FALSE, value |-> (c + 1) % U16Mod]
    ELSE [panic |-> FALSE, value |-> c + 1]

\* update that resets the counter before it rejects a backwards clock
update_ResetsBeforeReject(self, now, checked) ==
    IF self.last_generated_time_ms > now
    THEN [kind |-> "Err", self |-> [self EXCEPT !.counter = 0]]
    ELSE IF self.last_generated_time_ms < now
    THEN [kind |-> "Ok",
          self |-> [self EXCEPT !.counter = 0, !.last_generated_time_ms = now]]
    ELSE LET sum == AddOne(self.counter, checked)
         IN  IF sum.panic
             THEN [kind |-> "Panic", self |-> self]
             ELSE [kind |-> "Ok",
                   self |-> [self EXCEPT !.counter = sum.value,
                                         !.last_generated_time_ms = now]]

\* update that increments the counter whenever the clock did not go back
update_NeverResets(self, now, checked) ==
    IF self.last_generated_time_ms > now
    THEN [kind |-> "Err", self |-> self]
    ELSE LET sum == AddOne(self.counter, checked)
         IN  IF sum.panic
             THEN [kind |-> "Panic", self |-> self]
             ELSE [kind |-> "Ok",
                   self |-> [self EXCEPT !.counter = sum.value,
                                         !.last_generated_time_ms = now]]

\* update without the backwards-clock check
update_AcceptsBackwards(self, now, checked) ==
    IF self.last_generated_time_ms # now
    THEN [kind |-> "Ok",
          self |-> [self EXCEPT !.counter = 0, !.last_generated_time_ms = now]]
    ELSE LET sum == AddOne(self.counter, checked)
         IN  IF sum.panic
             THEN [kind |-> "Panic", self |-> self]
             ELSE [kind |-> "Ok",
                   self |-> [self EXCEPT !.counter = sum.value,
                                         !.last_generated_time_ms = now]]

\* update that clears the identifier along with the counter
update_ClearsIdentifier(self, now, checked) ==
    IF self.last_generated_time_ms > now
    THEN [kind |-> "Err", self |-> self]
    ELSE IF self.last_generated_time_ms < now
    THEN [kind |-> "Ok",
          self |-> [self EXCEPT !.counter = 0, !.last_generated_time_ms = now,
                                !.identifier = [i \in 1..IdLen |-> 0]]]
    ELSE LET sum == AddOne(self.counter, checked)
         IN  IF sum.panic
             THEN [kind |-> "Panic", self |-> self]
             ELSE [kind |-> "Ok",
                   self |-> [self EXCEPT !.counter = sum.value,
                                         !.last_generated_time_ms = now]]

\* Flaker::update, with the time it samples
update(self, now, checked) ==
    IF self.last_generated_time_ms > now
    THEN [kind |-> "Err", self |-> self]
    ELSE IF self.last_generated_time_ms < now
    THEN [kind |-> "Ok",
          self |-> [self EXCEPT !.counter = 0, !.last_generated_time_ms = now]]
    ELSE LET sum == AddOne(self.counter, checked)
         IN  IF sum.panic
             THEN [kind |-> "Panic", self |-> self]
             ELSE [kind |-> "Ok",
                   self |-> [self EXCEPT !.counter = sum.value,
                                         !.last_generated_time_ms = now]]

\* Flaker::get_id: self.update().map(|_| self.construct_id())
get_id(self, now, checked) ==
    LET u == update(self, now, checked)
    IN  [kind |-> u.kind,
         self |-> u.self,
         id   |-> IF u.kind = "Ok" THEN construct_id(u.self) ELSE <<>>]

(* ------------------------------- state -------------------------------- *)

VARIABLES
    overflow_checks,         \* the build: does u16 += panic on overflow
    given_identifier,        \* the identifier handed to the constructor
    given_endian,            \* the endianness handed to the constructor
    identifier,              \* Flaker.identifier
    last_generated_time_ms,  \* Flaker.last_generated_time_ms
    counter,                 \* Flaker.counter
    sampled,                 \* the time read by the latest call (or by new)
    result,                  \* the outcome of the latest get_id call
    calls,                   \* get_id calls made so far: 0, 1, 2, 3 (= 3 or more)
    before,                  \* the fields as they were before the latest call
    prev_id,                 \* the latest id returned before the latest call
    built,                   \* the constructor: "new" (not run yet), "ready"
                             \* (it returned the Flaker) or "panicked"
    other,                   \* a second Flaker and its number of calls
    returned,                \* SpecPair: the ids returned so far, each with
                             \* the generator and the fields it was packed from
    race                     \* SpecRace: each caller's place in get_id, the
                             \* time it sampled and what it was returned

vars == << overflow_checks, given_identifier, given_endian, identifier,
           last_generated_time_ms, counter, sampled, result, calls, before,
           prev_id, built, other, returned, race >>

\* No caller is inside get_id
NoRace == <<>>

\* No second Flaker
NoOther == <<>>

Self == [ identifier |-> identifier,
          last_generated_time_ms |-> last_generated_time_ms,
          counter |-> counter ]

NoResult == [kind |-> "None", id |-> <<>>]

\* The state after Flaker::new(given, endian), in either build
InitWith(inputs, endians) ==
    /\ overflow_checks \in BOOLEAN
    /\ given_identifier \in inputs
    /\ given_endian \in endians
    /\ \E now \in Clock :
          LET f == new(given_identifier, given_endian, now)
          IN  /\ identifier = f.identifier
              /\ last_generated_time_ms = f.last_generated_time_ms
              /\ counter = f.counter
              /\ sampled = now
              /\ before = f
    /\ result = NoResult
    /\ calls = 0
    /\ prev_id = <<>>
    /\ built = "ready"

\* One generator, and no record of all the ids it returns
Alone == other = NoOther /\ returned = {} /\ race = NoRace

\* The generator of the repository's tests: new([0,1,2,3,4,5], LittleEndian)
Init == InitWith({TestIdentifier}, {"LittleEndian"}) /\ Alone

\* One call of get_id that reads `now` from the clock: what it does to the
\* Flaker and to the record of the latest call (r is the one outcome of
\* get_id, bound once)
Call(now) ==
    \E r \in {get_id(Self, now, overflow_checks)} :
        /\ identifier' = r.self.identifier
        /\ last_generated_time_ms' = r.self.last_generated_time_ms
        /\ counter' = r.self.counter
        /\ sampled' = now
        /\ result' = [kind |-> r.kind, id |-> r.id]
        /\ calls' = IF calls < 3 THEN calls + 1 ELSE 3
        /\ before' = Self
        /\ prev_id' = IF result.kind = "Ok" THEN result.id ELSE prev_id
        /\ UNCHANGED << overflow_checks, given_identifier, given_endian >>

GetId(now) == Call(now) /\ UNCHANGED << built, other, returned, race >>

Next == \E now \in Clock : GetId(now)

Spec == Init /\ [][Next]_vars

(* A second specification: every identifier over a few byte values, both  *)
(* byte orders, and short bursts of get_id calls.                         *)

AllIdentifiers == [1..IdLen -> 0..MaxByte]

InitNew == InitWith(AllIdentifiers, Endianness) /\ Alone

NextNew == \E now \in Clock : counter < MaxBurst /\ GetId(now)

SpecNew == InitNew /\ [][NextNew]_vars

(* A third specification: the constructor new_from_identifier, handed     *)
(* vectors of several lengths, and short bursts of get_id calls on what   *)
(* it returns.                                                             *)

Vectors == UNION { [1..n -> 0..MaxByte] : n \in (IdLen - 1)..(IdLen + MaxExtra) }

\* Before the constructor has run there is no Flaker
InitVec ==
    /\ overflow_checks \in BOOLEAN
    /\ given_identifier \in Vectors
    /\ given_endian = "LittleEndian"
    /\ built = "new"
    /\ identifier = <<>>
    /\ last_generated_time_ms = 0
    /\ counter = 0
    /\ sampled = 0
    /\ before = Self
    /\ result = NoResult
    /\ calls = 0
    /\ prev_id = <<>>
    /\ Alone

\* Flaker::new_from_identifier(given_identifier), reading `now` in new
NewFromIdentifier(now) ==
    /\ built = "new"
    /\ LET r == new_from_identifier(given_identifier, now)
       IN  IF r.panic
           THEN /\ built' = "panicked"
                /\ UNCHANGED << identifier, last_generated_time_ms, counter,
                                sampled, before >>
           ELSE /\ built' = "ready"
                /\ identifier' = r.self.identifier
                /\ last_generated_time_ms' = r.self.last_generated_time_ms
                /\ counter' = r.self.counter
                /\ sampled' = now
                /\ before' = r.self
    /\ UNCHANGED << overflow_checks, given_identifier, given_endian, result,
                    calls, prev_id, other, returned, race >>

NextVec ==
    \/ \E now \in Clock : NewFromIdentifier(now)
    \/ \E now \in Clock : built = "ready" /\ counter < MaxBurst /\ GetId(now)

SpecVec == InitVec /\ [][NextVec]_vars

(* A fourth specification: two independent generators whose get_id calls *)
(* interleave.  The first is fresh from new; the second has been running: *)
(* it stands at any clock reading with a counter of 0, 255 or 65534, each  *)
(* of which Spec reaches.                                                  *)

PairIdentifiers ==
    { TestIdentifier, <<0, 1, 2, 3, 4, 6>>, <<255, 255, 255, 255, 255, 255>> }

StartCounters == {0, 255, U16Mod - 2}

\* What SpecPair keeps of an id a generator returned
Returned(who, id, self) ==
    [ who |-> who, id |-> id, time |-> self.last_generated_time_ms,
      counter |-> self.counter, identifier |-> self.identifier ]

InitPair ==
    /\ InitWith(PairIdentifiers, {"LittleEndian"})
    /\ \E theirs \in PairIdentifiers, now \in Clock, c \in StartCounters :
          other = [ self  |-> [new(theirs, "LittleEndian", now) EXCEPT !.counter = c],
                    calls |-> 0 ]
    /\ returned = {}
    /\ race = NoRace

\* The first generator's get_id
FirstGetId(now) ==
    /\ calls < MaxCalls
    /\ Call(now)
    /\ returned' = IF result'.kind = "Ok"
                   THEN returned \cup {Returned(1, result'.id, Self')}
                   ELSE returned
    /\ UNCHANGED << built, other, race >>

\* The second generator's get_id
OtherGetId(now) ==
    /\ other.calls < MaxCalls
    /\ \E r \in {get_id(other.self, now, overflow_checks)} :
           /\ other' = [self |-> r.self, calls |-> other.calls + 1]
           /\ returned' = IF r.kind = "Ok"
                          THEN returned \cup {Returned(2, r.id, r.self)}
                          ELSE returned
    /\ UNCHANGED << overflow_checks, given_identifier, given_endian, identifier,
                    last_generated_time_ms, counter, sampled, result, calls,
                    before, prev_id, built, race >>

NextPair ==
    \/ \E now \in Clock : FirstGetId(now)
    \/ \E now \in Clock : OtherGetId(now)

SpecPair == InitPair /\ [][NextPair]_vars

(* A fifth specification: two callers inside get_id on one Flaker with no *)
(* mutual exclusion, each running the statements of update and            *)
(* construct_id one at a time.                                             *)

Callers == {"a", "b"}

InitRace ==
    /\ InitWith({TestIdentifier}, {"LittleEndian"})
    /\ other = NoOther
    /\ returned = {}
    /\ race = [ pc  |-> [t \in Callers |-> "idle"],
                now |-> [t \in Callers |-> 0],
                ret |-> [t \in Callers |-> NoResult] ]

\* What a step of a caller leaves alone, the Flaker's fields aside
RaceFrame ==
    UNCHANGED << overflow_checks, given_identifier, given_endian, identifier,
                 sampled, result, calls, before, prev_id, built, other,
                 returned >>

\* let current_time_in_ms = Flaker::current_time_in_ms()
RaceSample(t, now) ==
    /\ race.pc[t] = "idle"
    /\ race' = [race EXCEPT !.pc[t] = "compare", !.now[t] = now]
    /\ UNCHANGED << last_generated_time_ms, counter >>
    /\ RaceFrame

\* if self.last_generated_time_ms > current_time_in_ms { return Err }
RaceCompare(t) ==
    /\ race.pc[t] = "compare"
    /\ race' = IF last_generated_time_ms > race.now[t]
               THEN [race EXCEPT !.pc[t] = "done",
                                 !.ret[t] = [kind |-> "Err", id |-> <<>>]]
               ELSE [race EXCEPT !.pc[t] = "count"]
    /\ UNCHANGED << last_generated_time_ms, counter >>
    /\ RaceFrame

\* self.counter = 0, or self.counter += 1
RaceCount(t) ==
    /\ race.pc[t] = "count"
    /\ IF last_generated_time_ms < race.now[t]
       THEN /\ counter' = 0
            /\ race' = [race EXCEPT !.pc[t] = "store"]
       ELSE LET sum == AddOne(counter, overflow_checks)
            IN  IF sum.panic
                THEN /\ counter' = counter
                     /\ race' = [race EXCEPT !.pc[t] = "done",
                                  !.ret[t] = [kind |-> "Panic", id |-> <<>>]]
                ELSE /\ counter' = sum.value
                     /\ race' = [race EXCEPT !.pc[t] = "store"]
    /\ UNCHANGED << last_generated_time_ms >>
    /\ RaceFrame

\* self.last_generated_time_ms = current_time_in_ms
RaceStore(t) ==
    /\ race.pc[t] = "store"
    /\ last_generated_time_ms' = race.now[t]
    /\ race' = [race EXCEPT !.pc[t] = "pack"]
    /\ UNCHANGED << counter >>
    /\ RaceFrame

\* self.construct_id()
RacePack(t) ==
    /\ race.pc[t] = "pack"
    /\ race' = [race EXCEPT !.pc[t] = "done",
                            !.ret[t] = [kind |-> "Ok", id |-> construct_id(Self)]]
    /\ UNCHANGED << last_generated_time_ms, counter >>
    /\ RaceFrame

NextRace ==
    \E t \in Callers :
        \/ \E now \in Clock : RaceSample(t, now)
        \/ RaceCompare(t)
        \/ RaceCount(t)
        \/ RaceStore(t)
        \/ RacePack(t)

SpecRace == InitRace /\ [][NextRace]_vars

(* ------------------------ reading an id's fields ---------------------- *)

\* The number a little-endian byte sequence denotes
RECURSIVE ValLE(_)
ValLE(bytes) == IF bytes = <<>> THEN 0 ELSE bytes[1] + 256 * ValLE(Tail(bytes))

\* bytes lo..hi (0-based) of an id
IdSlice(id, lo, hi) == [i \in 1..(hi - lo + 1) |-> IdByte(id, lo + i - 1)]

CounterField(id) == ValLE(IdSlice(id, 0, 1))
IdentField(id)   == IdSlice(id, 2, 7)
TimeField(id)    == ValLE(IdSlice(id, 8, 15))

Called == calls > 0

\* The latest call read the time the instance had recorded
SameMs == Called /\ sampled = before.last_generated_time_ms

(* -------------------------------- C1 ---------------------------------- *)

\* C1: every id a Flaker returns is strictly greater, as an unsigned
\* integer, than every id it returned earlier.  The order is transitive, so
\* this is: each returned id is greater than the latest id returned before
\* it (prev_id).
C1_StrictlyIncreasing ==
    (result.kind = "Ok" /\ prev_id # <<>>) => BigLess(prev_id, result.id)

(* -------------------------------- C2 ---------------------------------- *)

\* C2: a call that samples a time earlier than last_generated_time_ms
\* returns ClockIsRunningBackwards, produces no id, and leaves
\* last_generated_time_ms, counter and identifier as they were.
C2_BackwardsRejected ==
    (Called /\ sampled < before.last_generated_time_ms)
        => /\ result.kind = "Err"
           /\ result.id = <<>>
           /\ last_generated_time_ms = before.last_generated_time_ms
           /\ counter = before.counter
           /\ identifier = before.identifier

\* A rejected call on an instance whose counter was not 0
C2_Witness ==
    /\ Called
    /\ sampled < before.last_generated_time_ms
    /\ before.counter > 0
    /\ result.kind = "Err"

(* -------------------------------- C3 ---------------------------------- *)

\* C3: of two consecutive calls that sample the same millisecond, the
\* second returns a strictly greater id: its counter field is larger, its
\* identifier and timestamp bytes are the same.
C3_SameMsGreater ==
    [][ (result.kind = "Ok" /\ result'.kind = "Ok" /\ sampled' = sampled)
          => /\ BigLess(result.id, result'.id)
             /\ CounterField(result'.id) > CounterField(result.id)
             /\ IdentField(result'.id) = IdentField(result.id)
             /\ IdSlice(result'.id, 8, 15) = IdSlice(result.id, 8, 15) ]_vars

(* -------------------------------- C4 ---------------------------------- *)

\* C4: a returned id is T * 2^64 + I * 2^16 + c: bytes 0-1 are the counter
\* after the update (low byte first), bytes 2-7 the stored identifier (stored
\* byte k at byte k + 2), bytes 8-15 the sampled time T, little-endian, which
\* is also last_generated_time_ms after the call.
C4_Layout ==
    result.kind = "Ok"
        => /\ last_generated_time_ms = sampled
           /\ Len(result.id) <= IdBytes
           /\ CounterField(result.id) = counter
           /\ IdByte(result.id, 0) = counter % 256
           /\ IdByte(result.id, 1) = counter \div 256
           /\ \A k \in 0..(IdLen - 1) : IdByte(result.id, k + 2) = identifier[k + 1]
           /\ TimeField(result.id) = sampled

\* An id whose counter and whose time both need two bytes
C4_Witness ==
    /\ result.kind = "Ok"
    /\ counter > 256
    /\ counter % 256 # counter \div 256
    /\ sampled >= 256

(* -------------------------------- C5 ---------------------------------- *)

\* C5: a call that samples a time later than last_generated_time_ms resets
\* the counter: the returned id's counter field is 0, whatever the counter
\* was.
C5_ResetOnAdvance ==
    (Called /\ sampled > before.last_generated_time_ms)
        => /\ result.kind = "Ok"
           /\ counter = 0
           /\ CounterField(result.id) = 0

\* The clock advanced on an instance whose counter was not 0
C5_Witness ==
    /\ Called
    /\ sampled > before.last_generated_time_ms
    /\ before.counter > 1
    /\ result.kind = "Ok"

(* -------------------------------- C6 ---------------------------------- *)

\* C6: after a rejected call, the first later call that samples a time
\* greater than or equal to last_generated_time_ms succeeds and returns an
\* id.  (Rejected calls change nothing, so that call follows a rejected one.)
C6_RetrySucceeds ==
    [][ (result.kind = "Err" /\ sampled' >= last_generated_time_ms)
          => (result'.kind = "Ok" /\ result'.id # <<>>) ]_vars

(* -------------------------------- C7 ---------------------------------- *)

\* [a,b,c,d,e,f] written as [f,e,d,c,b,a]
Backwards(g) == << g[6], g[5], g[4], g[3], g[2], g[1] >>

\* C7: new([a,b,c,d,e,f], BigEndian) stores what new([f,e,d,c,b,a],
\* LittleEndian) stores, so the two return the same id (the same bytes 2-7)
\* for the same time and counter; LittleEndian stores the bytes as given.
C7_EndianTwin ==
    LET twin == new(Backwards(given_identifier), "LittleEndian", sampled)
        twin_now == [twin EXCEPT !.last_generated_time_ms = last_generated_time_ms,
                                 !.counter = counter]
    IN  /\ given_endian = "BigEndian"
            => /\ identifier = twin.identifier
               /\ twin.identifier = Backwards(given_identifier)
               /\ result.kind = "Ok"
                    => /\ result.id = construct_id(twin_now)
                       /\ IdentField(result.id) = Backwards(given_identifier)
        /\ given_endian = "LittleEndian"
            => /\ identifier = given_identifier
               /\ result.kind = "Ok" => IdentField(result.id) = given_identifier

\* A big-endian construction of an identifier that is no palindrome has
\* returned an id
C7_Witness ==
    /\ given_endian = "BigEndian"
    /\ given_identifier # Backwards(given_identifier)
    /\ result.kind = "Ok"

(* -------------------------------- C8 ---------------------------------- *)

\* C8: last_generated_time_ms never decreases over a call, and after a
\* successful call it is the time that call sampled.
C8_TimeNeverDecreases ==
    /\ last_generated_time_ms >= before.last_generated_time_ms
    /\ result.kind = "Ok" => last_generated_time_ms = sampled

\* A successful call moved last_generated_time_ms forward, after an id had
\* already been returned
C8_Witness ==
    /\ result.kind = "Ok"
    /\ last_generated_time_ms > before.last_generated_time_ms
    /\ prev_id # <<>>

(* -------------------------------- C9 ---------------------------------- *)

\* C9: a call in the same millisecond sets counter to (counter + 1) mod
\* 2^16 and does not fail; at 65535 the counter wraps to 0 and an id with
\* counter field 0 is returned.
C9_CounterWraps ==
    SameMs
        => /\ result.kind = "Ok"
           /\ counter = (before.counter + 1) % U16Mod
           /\ CounterField(result.id) = counter
           /\ before.counter = U16Mod - 1 => CounterField(result.id) = 0

(* -------------------------------- C10 --------------------------------- *)

\* C10: on an instance built with a little-endian identifier, the first
\* get_id call, sampling T0, returns an id with bytes 0-1 = [0,0], bytes 2-7
\* the identifier and bytes 8-15 T0; a second call sampling T0 again returns
\* an id with bytes 0-1 = [1,0], the other bytes the same, and greater.
C10_FirstTwoIds ==
    given_endian = "LittleEndian"
        => /\ (calls = 1 /\ result.kind = "Ok")
                => /\ IdSlice(result.id, 0, 1) = <<0, 0>>
                   /\ IdentField(result.id) = given_identifier
                   /\ TimeField(result.id) = sampled
           /\ (calls = 2 /\ result.kind = "Ok" /\ prev_id # <<>> /\ SameMs)
                => /\ IdSlice(result.id, 0, 1) = <<1, 0>>
                   /\ IdSlice(result.id, 2, 15) = IdSlice(prev_id, 2, 15)
                   /\ BigLess(prev_id, result.id)

(* -------------------------------- C11 --------------------------------- *)

\* C11: a get_id call ends in exactly one of two ways: rejected
\* (ClockIsRunningBackwards, no id) exactly when the sampled time is below
\* last_generated_time_ms, and otherwise advanced (an id is returned); no
\* call aborts or ends any third way.
C11_TwoOutcomes ==
    Called
        => /\ result.kind \in {"Ok", "Err"}
           /\ result.kind = "Err" <=> sampled < before.last_generated_time_ms
           /\ result.kind = "Err" => result.id = <<>>
           /\ sampled >= before.last_generated_time_ms
                => (result.kind = "Ok" /\ result.id # <<>>)

(* -------------------------------- C12 --------------------------------- *)

\* C12, as claimed: for any vector of at least 6 bytes new_from_identifier
\* returns a Flaker whose identifier is the first 6 bytes in the given
\* order, as new(first 6 bytes, LittleEndian) does; also for longer vectors.
C12_PrefixOfAnyLength ==
    (built # "new" /\ Len(given_identifier) >= IdLen)
        => /\ built = "ready"
           /\ identifier = SubSeq(given_identifier, 1, IdLen)

\* C12, amended: for a vector of exactly 6 bytes new_from_identifier returns
\* the Flaker new(those bytes, LittleEndian) returns, the identifier stored
\* in the given order; for a vector of any other length, shorter or longer,
\* it panics and returns no Flaker.
C12_ExactlySixBytes ==
    built # "new"
        => /\ Len(given_identifier) = IdLen
                => /\ built = "ready"
                   /\ identifier = given_identifier
                   /\ calls = 0 => Self = new(given_identifier, "LittleEndian", sampled)
                   /\ result.kind = "Ok" => IdentField(result.id) = given_identifier
           /\ Len(given_identifier) # IdLen => built = "panicked"

\* new_from_identifier returned a Flaker for 6 bytes that are no palindrome,
\* and the Flaker has returned an id
C12_Witness ==
    /\ built = "ready"
    /\ Len(given_identifier) = IdLen
    /\ given_identifier # Backwards(given_identifier)
    /\ result.kind = "Ok"

(* -------------------------------- C13 --------------------------------- *)

\* C13: of two returned ids, of one generator or of two, whose timestamps
\* differ, the one with the smaller timestamp is the smaller integer,
\* whatever the identifiers and the counters.
C13_TimeDecides ==
    \A x, y \in returned : x.time < y.time => BigLess(x.id, y.id)

\* Two generators: the earlier id has the greatest identifier and the
\* greatest counter, the later id a smaller identifier and counter 0
C13_Witness ==
    \E x, y \in returned :
        /\ x.who # y.who
        /\ x.time < y.time
        /\ x.counter = U16Mod - 1
        /\ x.identifier = <<255, 255, 255, 255, 255, 255>>
        /\ y.counter = 0
        /\ y.identifier = TestIdentifier

(* -------------------------------- C14 --------------------------------- *)

\* a < b for two identifiers read as little-endian 48-bit numbers
IdentLess(a, b) == CmpDigits(a, b, IdLen) = -1

\* C14, as claimed: of two returned ids with equal timestamps and different
\* counters, the one with the smaller counter is the smaller integer,
\* whatever the identifiers.
C14_CounterBeforeIdentifier ==
    \A x, y \in returned :
        (x.time = y.time /\ x.counter < y.counter) => BigLess(x.id, y.id)

\* C14, amended: of two returned ids with equal timestamps, the one with
\* the smaller identifier (as a little-endian 48-bit number) is the smaller
\* integer, whatever the counters; the counters decide only when timestamps
\* and identifiers are both equal.
C14_IdentifierBeforeCounter ==
    \A x, y \in returned :
        x.time = y.time
            => /\ IdentLess(x.identifier, y.identifier) => BigLess(x.id, y.id)
               /\ (x.identifier = y.identifier /\ x.counter < y.counter)
                    => BigLess(x.id, y.id)

\* Equal timestamps: the smaller identifier comes with the greater counter;
\* and one generator returned two ids in that millisecond
C14_Witness ==
    /\ \E x, y \in returned :
          /\ x.time = y.time
          /\ IdentLess(x.identifier, y.identifier)
          /\ x.counter > y.counter
    /\ \E x, y \in returned :
          /\ x.time = y.time
          /\ x.who = y.who
          /\ x.counter < y.counter

(* -------------------------------- C16 --------------------------------- *)

\* C16: two generators whose stored identifiers differ never return equal
\* ids, however their get_id calls interleave and whatever the clock reads.
C16_NoCollision ==
    \A x, y \in returned :
        (x.who # y.who /\ x.identifier # y.identifier) => x.id # y.id

\* Two generators with different identifiers returned ids in the same
\* millisecond with the same counter
C16_Witness ==
    \E x, y \in returned :
        /\ x.who # y.who
        /\ x.identifier # y.identifier
        /\ x.time = y.time
        /\ x.counter = y.counter

(* -------------------------------- C15 --------------------------------- *)

\* C15: the stored identifier is the one fixed at construction after every
\* get_id call, successful or not, and bytes 2-7 of every returned id are
\* that identifier.
C15_IdentifierFixed ==
    LET stored == new(given_identifier, given_endian, sampled).identifier
    IN  /\ identifier = stored
        /\ before.identifier = stored
        /\ result.kind = "Ok" => IdentField(result.id) = stored
        /\ prev_id # <<>> => IdentField(prev_id) = stored

\* A rejected call, the third or a later one, after an id was returned in
\* a millisecond that saw several calls
C15_Witness ==
    /\ calls = 3
    /\ result.kind = "Err"
    /\ prev_id # <<>>
    /\ counter > 0

(* -------------------------------- C17 --------------------------------- *)

\* The latest id returned so far
LatestId == IF result.kind = "Ok" THEN result.id ELSE prev_id

\* C17, the calls that run one at a time (each get_id whole, as under one
\* lock): the ids handed back are strictly increasing in the order the
\* calls run.
C17_LockedCallsIncrease ==
    [][ (result'.kind = "Ok" /\ LatestId # <<>>)
          => BigLess(LatestId, result'.id) ]_vars

\* C17, the calls that interleave statement by statement: both callers
\* have been handed the same id.  (SpecRace reaches this state.)
C17_BothHandedTheSameId ==
    /\ race # NoRace
    /\ \A t \in Callers : race.pc[t] = "done" /\ race.ret[t].kind = "Ok"
    /\ race.ret["a"].id = race.ret["b"].id

C17_RaceNeverDuplicates == ~C17_BothHandedTheSameId

====
